---------------------------- MODULE Spec2Model ----------------------------
(* A model of app.py, the dashboard script: its text helpers (_norm,       *)
(* pick_col, classify_theme, normalize_vendor_to_plant), the multi-GID     *)
(* load, the column mapping, parse_dt_smart with the week derivation, and  *)
(* the reason x plant cross-tabulation.                                    *)
(*                                                                         *)
(* A Python str is a sequence of Unicode code points, so that lower(),     *)
(* strip(), the \s+ collapse, the `in` substring test and the sort order   *)
(* of labels are computed as Python computes them.                         *)
EXTENDS Integers, Sequences, FiniteSets, TLC

VARIABLES
    pc,            \* position of the script run
    stop,          \* the message of safe_stop / st.stop, "" while running
    \* the theme rules and the theme column
    cfg,           \* the rules text of the sidebar, after json.loads
    text,          \* the reason text of a row
    rules,         \* theme_rules
    theme,         \* what classify_theme produced for the row
    \* pick_col
    columns,       \* its columns argument
    candidates,    \* its candidates argument
    picked,        \* what it returned
    \* the load
    mode,          \* the source radio: "gsheets" or "upload"
    pieces,        \* gids_text, split at the commas
    uploaded,      \* the uploaded file: "none", "unreadable" or its row count
    gids,          \* the stripped non-blank pieces
    gi,            \* the for loop's position in gids
    frames,        \* the tables read so far, each tagged with its gid
    errors,        \* the gids whose read raised, in order
    raw,           \* the concatenated table
    cache,         \* st.cache_data of load_from_gsheets: gid -> rows, or -1
    outcome,       \* what each read of this run returned: row count, or -1
    \* the column mapping
    headers,       \* the raw table's header texts
    cols,          \* df.columns after normalize_columns
    auto_date,     \* pick_col for the date
    auto_reason,   \* pick_col for the reason
    manual_date,   \* the user's choice in the date selectbox, 0: untouched
    manual_reason, \* the user's choice in the reason selectbox, 0: untouched
    col_date,
    col_reason,
    \* parse_dt_smart and the week columns
    parser,        \* how to_datetime treats a text that does not fit dayfirst
    s,             \* the date (and time) texts, one per row
    dt1,
    dt2,
    dt,            \* df["_dt"]
    chosen,        \* which of dt1, dt2 parse_dt_smart returned
    week_start,    \* df["_week_start"]
    week_label,    \* df["_week_label"]
    \* the plant column and the reason x plant table
    vendor_map,
    has_vendor,    \* whether col_vendor is set
    df,            \* the rows: reason text, vendor text, plant label
    period,        \* the period radio with its week or date range
    plant_filter,
    reason_filter,
    fdf,
    reason_plant

runVars   == <<pc, stop>>
themeVars == <<cfg, text, rules, theme>>
pickVars  == <<columns, candidates, picked>>
loadVars  == <<mode, pieces, uploaded, gids, gi, frames, errors, raw, cache, outcome>>
mapVars   == <<headers, cols, auto_date, auto_reason, manual_date, manual_reason,
               col_date, col_reason>>
timeVars  == <<parser, s, dt1, dt2, dt, chosen, week_start, week_label>>
tabVars   == <<vendor_map, has_vendor, df, period, plant_filter, reason_filter, fdf,
               reason_plant>>

vars == <<runVars, themeVars, pickVars, loadVars, mapVars, timeVars, tabVars>>

-----------------------------------------------------------------------------
(* Python str helpers *)

\* re \s and str.strip(): the whitespace code points (tab, LF, VT, FF, CR,
\* FS..US, space, NEL, NBSP).
IsSpace(c) == c \in {9, 10, 11, 12, 13, 28, 29, 30, 31, 32, 133, 160}

\* str.lower() on one code point: A-Z, and the Cyrillic capitals.
Lower(c) ==
    IF c >= 65 /\ c <= 90 THEN c + 32
    ELSE IF c >= 1040 /\ c <= 1071 THEN c + 32
    ELSE IF c = 1025 THEN 1105
    ELSE c

\* str.strip()
Strip(x) ==
    LET keep == {i \in 1..Len(x) : ~IsSpace(x[i])}
    IN  IF keep = {} THEN <<>>
        ELSE LET lo == CHOOSE i \in keep : \A j \in keep : i <= j
                 hi == CHOOSE i \in keep : \A j \in keep : i >= j
             IN  SubSeq(x, lo, hi)

RECURSIVE CollapseFrom(_, _)
CollapseFrom(x, i) ==
    IF i > Len(x) THEN <<>>
    ELSE IF IsSpace(x[i])
         THEN (IF i > 1 /\ IsSpace(x[i - 1]) THEN <<>> ELSE <<32>>)
              \o CollapseFrom(x, i + 1)
         ELSE <<x[i]>> \o CollapseFrom(x, i + 1)

\* re.sub(r"\s+", " ", x)
Collapse(x) == CollapseFrom(x, 1)

\* _norm: re.sub(r"\s+", " ", str(x).strip()).lower()
_norm(x) == LET c == Collapse(Strip(x)) IN [i \in 1..Len(c) |-> Lower(c[i])]

\* Python's  k in t  on two strings
IsSubstr(k, t) ==
    \E i \in 0..(Len(t) - Len(k)) : SubSeq(t, i + 1, i + Len(k)) = k

\* Python's  a < b  on two strings (code point order)
StrLess(a, b) ==
    \E i \in 1..(Len(a) + 1) :
        /\ \A j \in 1..(i - 1) : j <= Len(b) /\ a[j] = b[j]
        /\ \/ i = Len(a) + 1 /\ Len(b) >= i
           \/ i <= Len(a) /\ i <= Len(b) /\ a[i] < b[i]

\* sorted(set of strings): the ascending sequence
RECURSIVE SortedSeq(_)
SortedSeq(S) ==
    IF S = {} THEN <<>>
    ELSE LET m == CHOOSE x \in S : \A y \in S \ {x} : StrLess(x, y)
         IN  <<m>> \o SortedSeq(S \ {m})

\* All sequences over A of length 0..n
BSeq(A, n) == UNION {[1..k -> A] : k \in 0..n}

-----------------------------------------------------------------------------
(* JSON values of the rule configuration: a string, null/absent, or a       *)
(* value of another type.  Every value has the same two fields.             *)
JStr(x) == [t |-> "str", v |-> x]
JNone   == [t |-> "none", v |-> <<>>]
JNum    == [t |-> "num", v |-> <<>>]
JList(l) == [t |-> "list", v |-> l]

\* What a call produced: a value, or an exception.
Ok(v)  == [t |-> "ok", v |-> v]
Raised == [t |-> "raise", v |-> <<>>]

LABEL_OTHER   == <<1044, 1088, 1091, 1075, 1086, 1077>>            \* "Другое"
LABEL_NO_THEME      == <<1041, 1077, 1079, 32, 1090, 1077, 1084, 1099>>  \* "Без темы"

\* One element of theme_rules: a dict with its "theme" and "keywords"
\* entries, or a JSON value that is no dict.
Rule(th, kws) == [kind |-> "dict", theme |-> th, keywords |-> kws]
NotADict      == [kind |-> "other", theme |-> JNone, keywords |-> JNone]

\* (r.get("theme", "") or "").strip() or "Без темы"
RuleTheme(r) ==
    IF r.kind # "dict" THEN Raised                    \* r.get: AttributeError
    ELSE IF r.theme.t = "none" THEN Ok(LABEL_NO_THEME)
    ELSE IF r.theme.t = "str"
         THEN IF Strip(r.theme.v) = <<>> THEN Ok(LABEL_NO_THEME)
              ELSE Ok(Strip(r.theme.v))
    ELSE Raised                                       \* no .strip on a number

\* r.get("keywords", []) or [] : the keywords the inner loop visits
RuleKeywords(r) ==
    IF r.keywords.t = "none" THEN Ok(<<>>)
    ELSE IF r.keywords.t = "list" THEN Ok(r.keywords.v)
    ELSE IF r.keywords.t = "str"                      \* a str iterates its characters
         THEN Ok([i \in 1..Len(r.keywords.v) |-> <<r.keywords.v[i]>>])
    ELSE Raised                                       \* a number is not iterable

\* the inner loop: some keyword kk = _norm(k) with  kk and kk in t
KeywordHit(kws, t) ==
    \E i \in 1..Len(kws) : _norm(kws[i]) # <<>> /\ IsSubstr(_norm(kws[i]), t)

RECURSIVE ClassifyFrom(_, _, _)
ClassifyFrom(t, rs, i) ==
    IF i > Len(rs) THEN Ok(LABEL_OTHER)
    ELSE LET th  == RuleTheme(rs[i])
             kws == RuleKeywords(rs[i])
         IN  IF th.t = "raise" THEN Raised
             ELSE IF kws.t = "raise" THEN Raised
             ELSE IF KeywordHit(kws.v, t) THEN th
             ELSE ClassifyFrom(t, rs, i + 1)

\* classify_theme with the rules scanned from the last to the first
classify_theme_last_first(txt, rs) ==
    ClassifyFrom(_norm(txt), [i \in 1..Len(rs) |-> rs[Len(rs) + 1 - i]], 1)

classify_theme(txt, rs) == ClassifyFrom(_norm(txt), rs, 1)

-----------------------------------------------------------------------------
(* DEFAULT_THEME_RULES, as code points *)
THEME_1 == <<1052, 1086, 1073, 1080, 1083, 1100, 1085, 1086, 1077, 32, 1087, 1088, 1080, 1083, 1086, 1078, 1077, 1085, 1080, 1077>>  \* Mobile app
THEME_2 == <<1047, 1072, 1087, 1091, 1089, 1082, 32, 1089, 1077, 1089, 1089, 1080, 1080, 32, 47, 32, 1040, 1074, 1090, 1086, 1088, 1080, 1079, 1072, 1094, 1080, 1103>>  \* Session launch / Authorization
THEME_3 == <<1055, 1088, 1077, 1088, 1099, 1074, 1072, 1085, 1080, 1077, 32, 1089, 1077, 1089, 1089, 1080, 1080>>  \* Session interruption
THEME_4 == <<1055, 1083, 1072, 1090, 1077, 1078, 1080, 32, 47, 32, 1041, 1072, 1083, 1072, 1085, 1089>>  \* Payments / Balance
THEME_5 == <<1057, 1082, 1086, 1088, 1086, 1089, 1090, 1100, 47, 1084, 1086, 1097, 1085, 1086, 1089, 1090, 1100>>  \* Speed/power
THEME_6 == <<1054, 1092, 1092, 1083, 1072, 1081, 1085, 47, 1089, 1077, 1090, 1100, 47, 1076, 1086, 1089, 1090, 1091, 1087, 1085, 1086, 1089, 1090, 1100>>  \* Offline/network/availability
THEME_7 == <<1055, 1072, 1088, 1082, 1086, 1074, 1082, 1072, 47, 1079, 1072, 1085, 1103, 1090, 1086>>  \* Parking/occupied
THEME_8 == <<1050, 1086, 1085, 1085, 1077, 1082, 1090, 1086, 1088, 1099, 47, 1082, 1085, 1086, 1087, 1082, 1072>>  \* Connectors/button
THEME_9 == <<1059, 1089, 1090, 1072, 1085, 1086, 1074, 1082, 1072, 32, 1069, 1047, 1057>>  \* Station installation
DEFAULT_THEME_RULES == <<
    Rule(JStr(THEME_1), JList(<<
            <<1084, 1086, 1073, 1080, 1083, 1100, 1085>>,
            <<1087, 1088, 1080, 1083, 1086, 1078>>>>)),
    Rule(JStr(THEME_2), JList(<<
            <<1085, 1077, 32, 1079, 1072, 1087, 1091, 1089, 1082, 1072, 1077, 1090>>,
            <<1079, 1072, 1087, 1091, 1089, 1082>>,
            <<1072, 1074, 1090, 1086, 1088, 1080, 1079, 1072>>,
            <<1089, 1077, 1089, 1089, 1080>>>>)),
    Rule(JStr(THEME_3), JList(<<
            <<1087, 1088, 1077, 1088, 1099, 1074, 1072, 1085>>,
            <<1089, 1072, 1084, 1086, 1087, 1088, 1086, 1080, 1079, 1074, 1086, 1083, 1100, 1085>>>>)),
    Rule(JStr(THEME_4), JList(<<
            <<1087, 1086, 1087, 1086, 1083, 1085>>,
            <<1073, 1072, 1085, 1082, 1086, 1074, 1089, 1082>>,
            <<1073, 1072, 1083, 1072, 1085, 1089>>,
            <<1076, 1077, 1085, 1077, 1078>>,
            <<1074, 1086, 1079, 1074, 1088, 1072, 1090>>>>)),
    Rule(JStr(THEME_5), JList(<<
            <<1085, 1080, 1079, 1082, 1072, 1103, 32, 1089, 1082, 1086, 1088, 1086, 1089, 1090, 1100>>,
            <<1084, 1077, 1076, 1083, 1077, 1085, 1085, 1086>>,
            <<1084, 1086, 1097, 1085, 1086, 1089, 1090>>>>)),
    Rule(JStr(THEME_6), JList(<<
            <<1085, 1077, 32, 1074, 32, 1089, 1077, 1090, 1080>>,
            <<1085, 1077, 1076, 1086, 1089, 1090, 1091, 1087>>,
            <<1084, 1086, 1085, 1080, 1090, 1086, 1088, 1080, 1085, 1075>>>>)),
    Rule(JStr(THEME_7), JList(<<
            <<1087, 1072, 1088, 1082, 1086, 1074>>,
            <<1079, 1072, 1085, 1103, 1090, 1086>>,
            <<1076, 1074, 1089>>,
            <<1087, 1076, 1076>>>>)),
    Rule(JStr(THEME_8), JList(<<
            <<1082, 1086, 1085, 1085, 1077, 1082, 1090, 1086, 1088>>,
            <<1072, 1074, 1072, 1088, 1080, 1081, 1085>>,
            <<1082, 1085, 1086, 1087, 1082>>>>)),
    Rule(JStr(THEME_9), JList(<<
            <<1091, 1089, 1090, 1072, 1085, 1086, 1074, 1082>>,
            <<1090, 1077, 1088, 1088, 1080, 1090, 1086, 1088, 1080>>>>))
    >>

-----------------------------------------------------------------------------
(* The rule configuration and the theme column *)

\* the sidebar's rules text after json.loads: a list, or anything else
\* (broken JSON, a dict, a number)
CfgList(l) == [list |-> TRUE, v |-> l]
CfgBroken  == [list |-> FALSE, v |-> <<>>]

\* try: json.loads / isinstance(list) ... except: theme_rules = DEFAULT_THEME_RULES
ParseThemeRules(c) == IF c.list THEN c.v ELSE DEFAULT_THEME_RULES

-----------------------------------------------------------------------------
(* pick_col *)

\* What pick_col returns: a header, or None.
Found(h) == [found |-> TRUE, v |-> h]
NotFound == [found |-> FALSE, v |-> <<>>]

\* norm_cols = {_norm(c): c for c in columns}: the keys in the order of their
\* first insertion ...
RECURSIVE NormKeysFrom(_, _)
NormKeysFrom(cs, i) ==
    IF i > Len(cs) THEN <<>>
    ELSE IF \E j \in 1..(i - 1) : _norm(cs[j]) = _norm(cs[i])
         THEN NormKeysFrom(cs, i + 1)
         ELSE <<_norm(cs[i])>> \o NormKeysFrom(cs, i + 1)

NormKeys(cs) == NormKeysFrom(cs, 1)

\* ... and each key's value, the last column that has this key.
NormColsGet(cs, key) ==
    LET is == {i \in 1..Len(cs) : _norm(cs[i]) = key}
    IN  cs[CHOOSE i \in is : \A j \in is : j <= i]

\* for cand in candidates: if _norm(cand) in norm_cols: return norm_cols[key]
RECURSIVE ExactFrom(_, _, _)
ExactFrom(cs, cands, i) ==
    IF i > Len(cands) THEN NotFound
    ELSE IF \E j \in 1..Len(cs) : _norm(cs[j]) = _norm(cands[i])
         THEN Found(NormColsGet(cs, _norm(cands[i])))
         ELSE ExactFrom(cs, cands, i + 1)

\* for n, orig in norm_cols.items(): if key and key in n: return orig
RECURSIVE PartialKeyFrom(_, _, _, _)
PartialKeyFrom(cs, keys, key, j) ==
    IF j > Len(keys) THEN NotFound
    ELSE IF key # <<>> /\ IsSubstr(key, keys[j])
         THEN Found(NormColsGet(cs, keys[j]))
         ELSE PartialKeyFrom(cs, keys, key, j + 1)

\* the partial match fallback: for cand in candidates: ...
RECURSIVE PartialFrom(_, _, _)
PartialFrom(cs, cands, i) ==
    IF i > Len(cands) THEN NotFound
    ELSE LET r == PartialKeyFrom(cs, NormKeys(cs), _norm(cands[i]), 1)
         IN  IF r.found THEN r ELSE PartialFrom(cs, cands, i + 1)

\* pick_col with the partial match tried before the exact one
pick_col_partial_first(cs, cands) ==
    IF cs = <<>> THEN NotFound
    ELSE LET e == PartialFrom(cs, cands, 1)
         IN  IF e.found THEN e ELSE ExactFrom(cs, cands, 1)

pick_col(cs, cands) ==
    IF cs = <<>> THEN NotFound
    ELSE LET e == ExactFrom(cs, cands, 1)
         IN  IF e.found THEN e ELSE PartialFrom(cs, cands, 1)

-----------------------------------------------------------------------------
(* normalize_vendor_to_plant and DEFAULT_VENDOR_MAP *)

PLANT_EPROM == <<1045, 1055, 1056, 1054, 1052>>    \* "ЕПРОМ"
PLANT_NSP   == <<1053, 1057, 1055>>                \* "НСП"
DASH        == <<8212>>                            \* "—"
NAN_TEXT    == <<110, 97, 110>>                    \* "nan", str() of a missing value

\* a dict, in insertion order: plant -> keys
DEFAULT_VENDOR_MAP == <<
    [plant |-> PLANT_EPROM,
     keys  |-> << <<1077, 1087, 1088, 1086, 1084>>,       \* "епром"
                  <<101, 112, 114, 111, 109>>,            \* "eprom"
                  <<101, 45, 112, 114, 111, 109>>,        \* "e-prom"
                  <<101, 32, 112, 114, 111, 109>> >>],    \* "e prom"
    [plant |-> PLANT_NSP,
     keys  |-> << <<1085, 1089, 1087>>,                   \* "нсп"
                  <<110, 115, 112>> >>]                   \* "nsp"
    >>

RECURSIVE PlantFrom(_, _, _)
PlantFrom(sv, vm, i) ==
    IF i > Len(vm) THEN LABEL_OTHER
    ELSE IF KeywordHit(vm[i].keys, sv) THEN vm[i].plant
    ELSE PlantFrom(sv, vm, i + 1)

\* normalize_vendor_to_plant without _norm on the vendor text
normalize_vendor_to_plant_as_typed(v, vm) ==
    IF v = <<>> \/ v = NAN_TEXT THEN DASH ELSE PlantFrom(v, vm, 1)

normalize_vendor_to_plant(v, vm) ==
    LET sv == _norm(v)
    IN  IF sv = <<>> \/ sv = NAN_TEXT THEN DASH ELSE PlantFrom(sv, vm, 1)

\* A cell of the vendor column: a text, or a missing value (NaN).
Cell(v)  == [nan |-> FALSE, v |-> v]
NaNCell  == [nan |-> TRUE, v |-> <<>>]

\* .astype(str) of a cell
AsStr(c) == IF c.nan THEN NAN_TEXT ELSE c.v

\* lines 315-318: the plant of a row
PlantOf(hasVendor, c, vm) ==
    IF hasVendor THEN normalize_vendor_to_plant(AsStr(c), vm) ELSE DASH

-----------------------------------------------------------------------------
(* Timestamps: pd.to_datetime, to_period("W-MON").start_time, strftime *)

\* A date text "a.b.y", with the time text that line 100 joins to it:
\* tm = NoTime when col_time is None, BadTime for a time text that does
\* not parse (such as "nan"), else the minutes after midnight.  a = 0
\* stands for a date text that is no date at all.
NoTime  == 0 - 2
BadTime == 0 - 1
DateText(a, b, y, tm) == [a |-> a, b |-> b, y |-> y, tm |-> tm]

IsLeap(y) == (y % 4 = 0 /\ y % 100 # 0) \/ y % 400 = 0

DaysInMonth(y, m) ==
    IF m = 2 THEN (IF IsLeap(y) THEN 29 ELSE 28)
    ELSE IF m \in {4, 6, 9, 11} THEN 30 ELSE 31

ValidDate(y, m, d) == m >= 1 /\ m <= 12 /\ d >= 1 /\ d <= DaysInMonth(y, m)

\* days since 1970-01-01 of a civil date
DaysFromCivil(y, m, d) ==
    LET yy  == IF m <= 2 THEN y - 1 ELSE y
        era == yy \div 400
        yoe == yy - era * 400
        mp  == IF m > 2 THEN m - 3 ELSE m + 9
        doy == (153 * mp + 2) \div 5 + d - 1
        doe == yoe * 365 + yoe \div 4 - yoe \div 100 + doy
    IN  era * 146097 + doe - 719468

\* the civil date <<y, m, d>> of a day number
CivilFromDays(z) ==
    LET zz  == z + 719468
        era == zz \div 146097
        doe == zz - era * 146097
        yoe == (doe - doe \div 1460 + doe \div 36524 - doe \div 146096) \div 365
        doy == doe - (365 * yoe + yoe \div 4 - yoe \div 100)
        mp  == (5 * doy + 2) \div 153
        d   == doy - (153 * mp + 2) \div 5 + 1
        m   == IF mp < 10 THEN mp + 3 ELSE mp - 9
        y   == yoe + era * 400
    IN  <<IF m <= 2 THEN y + 1 ELSE y, m, d>>

\* A timestamp: NaT, or a day number and the minutes after midnight.
NaT        == [nat |-> TRUE, day |-> 0, min |-> 0]
TS(day, m) == [nat |-> FALSE, day |-> day, min |-> m]

\* pd.to_datetime(text, dayfirst=..., errors="coerce") of one row.  A text
\* whose fields do not fit the asked order is NaT for a "strict" parser
\* (the format is fixed for the column) and is read in the other order by
\* a "lenient" one (each text parsed on its own).
to_datetime(x, dayfirst, p) ==
    LET d  == IF dayfirst THEN x.a ELSE x.b
        m  == IF dayfirst THEN x.b ELSE x.a
        mn == IF x.tm = NoTime THEN 0 ELSE x.tm
    IN  IF x.tm = BadTime THEN NaT
        ELSE IF ValidDate(x.y, m, d) THEN TS(DaysFromCivil(x.y, m, d), mn)
        ELSE IF p = "lenient" /\ ValidDate(x.y, d, m)
             THEN TS(DaysFromCivil(x.y, d, m), mn)
        ELSE NaT

\* the column-wise call
ToDatetimeAll(xs, dayfirst, p) ==
    [i \in 1..Len(xs) |-> to_datetime(xs[i], dayfirst, p)]

\* dt.notna().sum(); ok = this over the number of rows
NotNa(ds) == Cardinality({i \in 1..Len(ds) : ~ds[i].nat})

\* parse_dt_smart with  ok1 > 0.5  for  ok1 >= 0.5
parse_dt_smart_above_half(xs, p) ==
    LET d1  == ToDatetimeAll(xs, TRUE, p)
        ok1 == NotNa(d1)
        d2  == ToDatetimeAll(xs, FALSE, p)
        ok2 == NotNa(d2)
    IN  IF 2 * ok1 > Len(xs)
        THEN [dt |-> d1, dt1 |-> d1, dt2 |-> <<>>, chosen |-> "dayfirst"]
        ELSE IF ok2 > ok1
             THEN [dt |-> d2, dt1 |-> d1, dt2 |-> d2, chosen |-> "monthfirst"]
             ELSE [dt |-> d1, dt1 |-> d1, dt2 |-> d2, chosen |-> "dayfirst"]

\* parse_dt_smart from the line that builds dt1.  dt2 is <<>> when it is
\* never built.
parse_dt_smart(xs, p) ==
    LET d1  == ToDatetimeAll(xs, TRUE, p)
        ok1 == NotNa(d1)
        d2  == ToDatetimeAll(xs, FALSE, p)
        ok2 == NotNa(d2)
    IN  IF 2 * ok1 >= Len(xs)                            \* ok1 >= 0.5
        THEN [dt |-> d1, dt1 |-> d1, dt2 |-> <<>>, chosen |-> "dayfirst"]
        ELSE IF ok2 > ok1
             THEN [dt |-> d2, dt1 |-> d1, dt2 |-> d2, chosen |-> "monthfirst"]
             ELSE [dt |-> d1, dt1 |-> d1, dt2 |-> d2, chosen |-> "dayfirst"]

\* Monday = 0 ... Sunday = 6; day 0 (1970-01-01) is a Thursday
Weekday(day) == (day + 3) % 7

\* dt.to_period("W-MON").start_time: the period of anchor MON is the week
\* that ends on a Monday; it starts six days before its end.
WeekStartDay(day) == day + ((7 - Weekday(day)) % 7) - 6

WeekStart(ts) == IF ts.nat THEN NaT ELSE TS(WeekStartDay(ts.day), 0)

Fmt2(n) == <<48 + ((n \div 10) % 10), 48 + (n % 10)>>
Fmt4(n) == <<48 + ((n \div 1000) % 10), 48 + ((n \div 100) % 10)>> \o Fmt2(n)

\* strftime("%Y-%m-%d"); a missing value for NaT
WeekLabel(ts) ==
    IF ts.nat THEN NaNCell
    ELSE LET c == CivilFromDays(ts.day)
         IN  Cell(Fmt4(c[1]) \o <<45>> \o Fmt2(c[2]) \o <<45>> \o Fmt2(c[3]))

-----------------------------------------------------------------------------
(* The filters and the reason x plant table *)

TOTAL_NAME == <<1048, 1090, 1086, 1075, 1086>>     \* "Итого"

\* A row of df: the reason cell, the vendor cell, the week of its
\* timestamp (a week number stands for _week_label) and the plant label.
Row(reason, vendor, wk, plant) ==
    [reason |-> reason, vendor |-> vendor, wk |-> wk, plant |-> plant]

\* .fillna("—").astype(str)
FillStr(c) == IF c.nan THEN DASH ELSE c.v

\* latest_week = df["_week_label"].dropna().max()
LatestWeek(rows) ==
    LET ws == {rows[i].wk : i \in 1..Len(rows)}
    IN  CHOOSE w \in ws : \A v \in ws : v <= w

\* lines 366-379.  period: [mode, week] for the two week modes, [mode, lo,
\* hi] for the date range; an empty multiselect filters nothing.
PeriodKeeps(r, per, rows) ==
    IF per.mode = "latest" THEN r.wk = LatestWeek(rows)
    ELSE IF per.mode = "week" THEN r.wk = per.lo
    ELSE r.wk >= per.lo /\ r.wk <= per.hi

ApplyFilters(rows, per, pf, rf) ==
    SelectSeq(rows, LAMBDA r :
        /\ PeriodKeeps(r, per, rows)
        /\ (pf = {} \/ r.plant \in pf)
        /\ (rf = {} \/ AsStr(r.reason) \in rf))

\* pd.crosstab(idx, col, dropna=False): the sorted distinct labels of both
\* series and the count of each pair.
Crosstab(idx, col) ==
    LET R == SortedSeq({idx[k] : k \in 1..Len(idx)})
        C == SortedSeq({col[k] : k \in 1..Len(col)})
    IN  [index   |-> R,
         columns |-> C,
         cnt     |-> [i \in 1..Len(R) |-> [j \in 1..Len(C) |->
                        Cardinality({k \in 1..Len(idx) :
                                        idx[k] = R[i] /\ col[k] = C[j]})]]]

\* lines 405-408: the loop over the four labels only tests and passes
EnsureColumnsOrder(t) == t

\* lines 399-409: the table that is shown, and exported as
\* reason_x_plant_filtered
ReasonPlant(rows) ==
    EnsureColumnsOrder(
        Crosstab([k \in 1..Len(rows) |-> FillStr(rows[k].reason)],
                 [k \in 1..Len(rows) |-> rows[k].plant]))

RECURSIVE SumTo(_, _)
SumTo(f, n) == IF n = 0 THEN 0 ELSE f[n] + SumTo(f, n - 1)

\* add_totals_crosstab (no line of the script calls it): ct[total_name] =
\* ct.sum(axis=1) replaces a column that has this label and else appends
\* one; the row of column sums is appended under the same label.
add_totals_crosstab(idx, col, total_name) ==
    LET ct   == Crosstab(idx, col)
        nr   == Len(ct.index)
        nc   == Len(ct.columns)
        rsum == [i \in 1..nr |-> SumTo(ct.cnt[i], nc)]
        has  == \E j \in 1..nc : ct.columns[j] = total_name
        cols2 == IF has THEN ct.columns ELSE Append(ct.columns, total_name)
        cnt2 == [i \in 1..nr |-> [j \in 1..Len(cols2) |->
                    IF cols2[j] = total_name THEN rsum[i] ELSE ct.cnt[i][j]]]
        trow == [j \in 1..Len(cols2) |->
                    SumTo([i \in 1..nr |-> cnt2[i][j]], nr)]
    IN  [index   |-> Append(ct.index, total_name),
         columns |-> cols2,
         cnt     |-> Append(cnt2, trow)]

-----------------------------------------------------------------------------
(* Bounds and input universes *)

MaxRules   == 2     \* longest rule list of the configuration
MaxTextLen == 3     \* longest generated reason text
MaxCols    == 3     \* most headers handed to pick_col
MaxCands   == 2     \* most candidates handed to pick_col

\* 'a', 'A', 'b', ' '
TextAlphabet == {97, 65, 98, 32}

\* "Не запускает сессию"
SCENARIO_TEXT == <<1053, 1077, 32, 1079, 1072, 1087, 1091, 1089, 1082, 1072, 1077, 1090, 32, 1089, 1077, 1089, 1089, 1080, 1102>>

Texts == BSeq(TextAlphabet, MaxTextLen) \cup {SCENARIO_TEXT}

\* Elements a JSON list of rules may hold: well-formed rules, rules with a
\* padded, empty or missing label, with blank or padded keywords, with a
\* missing keyword list, and values of the wrong type.
RuleUniverse == {
    Rule(JStr(<<120>>), JList(<< <<97>> >>)),                     \* x: a
    Rule(JStr(<<121>>), JList(<< <<98>> >>)),                     \* y: b
    Rule(JStr(<<32, 122, 32>>), JList(<< <<65, 32>> >>)),         \* " z ": "A "
    Rule(JStr(<<120>>), JList(<< <<32>>, <<98>> >>)),             \* x: " ", b
    Rule(JStr(<<>>), JList(<< <<97>> >>)),                        \* "": a
    Rule(JNone, JList(<< <<98>> >>)),                             \* no label: b
    Rule(JStr(<<121>>), JList(<< <<>> >>)),                       \* y: ""
    Rule(JStr(<<122>>), JNone),                                   \* z: no keywords
    Rule(JStr(<<122>>), JList(<< <<97, 32, 98>> >>)),             \* z: "a b"
    Rule(JStr(<<121>>), JStr(<<97, 98>>)),                        \* y: "ab" (a str)
    Rule(JNum, JList(<< <<97>> >>)),                              \* label 5
    Rule(JStr(<<120>>), JNum),                                    \* keywords 5
    NotADict }

Configs == {CfgBroken} \cup {CfgList(l) : l \in BSeq(RuleUniverse, MaxRules)}

\* "a", "A ", "ab", "b", "a  b", "B"
HeaderUniverse == { <<97>>, <<65, 32>>, <<97, 98>>, <<98>>,
                    <<97, 32, 32, 98>>, <<66>> }

\* "a", "b", "A B", "", "c"
CandUniverse == { <<97>>, <<98>>, <<65, 32, 66>>, <<>>, <<99>> }

-----------------------------------------------------------------------------
(* The idle value of each part of the state *)

NoPeriod == [mode |-> "latest", lo |-> 0, hi |-> 0]

Gids == {"g1", "g2", "g3"}

\* the cache of load_from_gsheets with no entry
NoCache == [g \in Gids |-> 0 - 1]

IdleTheme ==
    /\ cfg = CfgBroken /\ text = <<>> /\ rules = <<>> /\ theme = JNone

IdlePick ==
    /\ columns = <<>> /\ candidates = <<>> /\ picked = NotFound

IdleLoad ==
    /\ mode = "gsheets" /\ pieces = <<>> /\ uploaded = 0 - 2
    /\ gids = <<>> /\ gi = 0 /\ frames = <<>> /\ errors = <<>> /\ raw = <<>>
    /\ cache = NoCache /\ outcome = <<>>

IdleMap ==
    /\ headers = <<>> /\ cols = <<>>
    /\ auto_date = NotFound /\ auto_reason = NotFound
    /\ manual_date = 0 /\ manual_reason = 0
    /\ col_date = NotFound /\ col_reason = NotFound

IdleTime ==
    /\ parser = "strict" /\ s = <<>> /\ dt1 = <<>> /\ dt2 = <<>> /\ dt = <<>>
    /\ chosen = "" /\ week_start = <<>> /\ week_label = <<>>

IdleTab ==
    /\ vendor_map = DEFAULT_VENDOR_MAP /\ has_vendor = FALSE /\ df = <<>>
    /\ period = NoPeriod /\ plant_filter = {} /\ reason_filter = {}
    /\ fdf = <<>> /\ reason_plant = ReasonPlant(<<>>)

-----------------------------------------------------------------------------
(* The theme rules and the theme column: lines 189-195 and 321 *)

InitTheme ==
    /\ pc = "rules" /\ stop = ""
    /\ cfg \in Configs /\ text \in Texts /\ rules = <<>> /\ theme = JNone
    /\ IdlePick /\ IdleLoad /\ IdleMap /\ IdleTime /\ IdleTab

LoadRules ==
    /\ pc = "rules"
    /\ rules' = ParseThemeRules(cfg)
    /\ pc' = "classify"
    /\ UNCHANGED <<stop, cfg, text, theme, pickVars, loadVars, mapVars,
                   timeVars, tabVars>>

\* df["Тема"] = ....apply(lambda x: classify_theme(x, theme_rules)); an
\* exception is not caught and ends the run.
Classify ==
    /\ pc = "classify"
    /\ theme' = classify_theme(text, rules)
    /\ pc' = IF theme'.t = "raise" THEN "crashed" ELSE "classified"
    /\ UNCHANGED <<stop, cfg, text, rules, pickVars, loadVars, mapVars,
                   timeVars, tabVars>>

NextTheme == LoadRules \/ Classify

SpecTheme == InitTheme /\ [][NextTheme]_vars

-----------------------------------------------------------------------------
(* pick_col on its own *)

InitPick ==
    /\ pc = "pick" /\ stop = ""
    /\ columns \in BSeq(HeaderUniverse, MaxCols)
    /\ candidates \in BSeq(CandUniverse, MaxCands)
    /\ picked = NotFound
    /\ IdleTheme /\ IdleLoad /\ IdleMap /\ IdleTime /\ IdleTab

PickCol ==
    /\ pc = "pick"
    /\ picked' = pick_col(columns, candidates)
    /\ pc' = "picked"
    /\ UNCHANGED <<stop, columns, candidates, themeVars, loadVars, mapVars,
                   timeVars, tabVars>>

NextPick == PickCol

SpecPick == InitPick /\ [][NextPick]_vars

-----------------------------------------------------------------------------
(* Claims on classify_theme *)

ThemeDone == pc \in {"classified", "crashed"}

\* the labels the rules of a list carry
RuleLabels(rs) ==
    {rs[i].theme.v : i \in {j \in 1..Len(rs) :
                              rs[j].kind = "dict" /\ rs[j].theme.t = "str"}}

\* C2: for every non-empty rule list that passes the configuration check
\* and every text, classify_theme raises nothing and returns the label of
\* one of the rules or the fallback label "Другое".
C2_LabelOfARuleOrFallback ==
    (ThemeDone /\ rules # <<>>) =>
        /\ theme.t = "ok"
        /\ theme.v \in RuleLabels(rules) \cup {LABEL_OTHER}

\* a list of {label, keywords} records: every label and keyword a string
IsRecordList(rs) ==
    \A i \in 1..Len(rs) :
        /\ rs[i].kind = "dict"
        /\ rs[i].theme.t = "str"
        /\ rs[i].keywords.t = "list"

\* a keyword of the rule, normalized, is a substring of the normalized text
AnyKeywordIn(r, t) ==
    \E k \in 1..Len(r.keywords.v) : IsSubstr(_norm(r.keywords.v[k]), t)

\* C3 as stated: when rule i and a later rule j both have a keyword in
\* the normalized text and no rule before i has one, the result is rule
\* i's label.
C3_FirstMatchWins_AsStated ==
    (ThemeDone /\ IsRecordList(rules)) =>
        \A i \in 1..Len(rules) : \A j \in (i + 1)..Len(rules) :
            ( /\ AnyKeywordIn(rules[i], _norm(text))
              /\ AnyKeywordIn(rules[j], _norm(text))
              /\ \A h \in 1..(i - 1) : ~AnyKeywordIn(rules[h], _norm(text)) )
            => theme = Ok(rules[i].theme.v)

\* a keyword of the rule that is not blank is, normalized, a substring of
\* the normalized text
AnyNonBlankKeywordIn(r, t) ==
    \E k \in 1..Len(r.keywords.v) :
        /\ Strip(r.keywords.v[k]) # <<>>
        /\ IsSubstr(_norm(r.keywords.v[k]), t)

\* the label of a rule as it is reported: without the surrounding
\* whitespace, and "Без темы" when nothing is left
ReportedLabel(r) ==
    IF Strip(r.theme.v) = <<>> THEN LABEL_NO_THEME ELSE Strip(r.theme.v)

\* C3, amended: blank keywords never match, and the label is reported
\* stripped ("Без темы" when blank).  With these, the first rule in list
\* order that has a matching keyword decides, whatever later rules match;
\* and with the default rules "Не запускает сессию" gets the launch /
\* authorization theme.
C3_FirstMatchWins ==
    /\ (ThemeDone /\ IsRecordList(rules)) =>
        \A i \in 1..Len(rules) : \A j \in (i + 1)..Len(rules) :
            ( /\ AnyNonBlankKeywordIn(rules[i], _norm(text))
              /\ AnyNonBlankKeywordIn(rules[j], _norm(text))
              /\ \A h \in 1..(i - 1) :
                    ~AnyNonBlankKeywordIn(rules[h], _norm(text)) )
            => theme = Ok(ReportedLabel(rules[i]))
    /\ (ThemeDone /\ rules = DEFAULT_THEME_RULES /\ text = SCENARIO_TEXT) =>
        theme = Ok(THEME_2)

\* Two rules with different labels both match, and the first one's label
\* is the result.
C3_Witness ==
    /\ pc = "classified" /\ IsRecordList(rules) /\ Len(rules) = 2
    /\ AnyNonBlankKeywordIn(rules[1], _norm(text))
    /\ AnyNonBlankKeywordIn(rules[2], _norm(text))
    /\ ReportedLabel(rules[1]) # ReportedLabel(rules[2])
    /\ theme = Ok(ReportedLabel(rules[1]))

-----------------------------------------------------------------------------
(* Claims on pick_col *)

\* the candidates that equal some header after _norm
ExactCands ==
    {i \in 1..Len(candidates) :
        \E j \in 1..Len(columns) : _norm(columns[j]) = _norm(candidates[i])}

FirstExactCand == CHOOSE i \in ExactCands : \A k \in ExactCands : i <= k

\* C4: when some candidate equals some header after whitespace collapse
\* and lower-casing, pick_col returns a header of the list whose normalized
\* form equals that of the most preferred such candidate, never a header
\* that merely contains a candidate.
C4_ExactMatchPreferred ==
    (pc = "picked" /\ ExactCands # {}) =>
        /\ picked.found
        /\ \E j \in 1..Len(columns) : columns[j] = picked.v
        /\ _norm(picked.v) = _norm(candidates[FirstExactCand])

\* A more preferred candidate is a substring of another header,
\* and the exact match of a later candidate is returned all the same.
C4_Witness ==
    /\ pc = "picked" /\ ExactCands # {}
    /\ \E h \in 1..(FirstExactCand - 1) : \E j \in 1..Len(columns) :
          /\ _norm(candidates[h]) # <<>>
          /\ _norm(columns[j]) # _norm(candidates[FirstExactCand])
          /\ IsSubstr(_norm(candidates[h]), _norm(columns[j]))
    /\ _norm(picked.v) = _norm(candidates[FirstExactCand])

-----------------------------------------------------------------------------
(* The load: lines 216-254 *)

MaxPieces == 5      \* most comma-separated pieces of gids_text
MaxSheetRows == 1   \* most rows of one sheet or of the uploaded file

\* the pieces of gids_text.split(","): a gid, a padded gid, a blank piece
PieceUniverse == {"g1", " g2 ", "g3", " "}

\* g.strip()
StripPiece(p) ==
    IF p = " g2 " THEN "g2" ELSE IF p = " " THEN "" ELSE p

\* [g.strip() for g in str(gids_text).split(",") if g.strip()]
ParseGids(ps) ==
    LET kept == SelectSeq(ps, LAMBDA p : StripPiece(p) # "")
    IN  [i \in 1..Len(kept) |-> StripPiece(kept[i])]

\* dfi["_source_gid"] = gid, on the n rows read from the sheet
TagFrame(gid, n) ==
    [k \in 1..n |-> [source_gid |-> gid, sheet |-> gid, k |-> k]]

\* pd.concat(frames, ignore_index=True, sort=False)
RECURSIVE ConcatFrom(_, _)
ConcatFrom(fs, i) ==
    IF i > Len(fs) THEN <<>> ELSE fs[i] \o ConcatFrom(fs, i + 1)

Concat(fs) == ConcatFrom(fs, 1)

\* the sidebar's inputs of one run
ChooseSource(m, ps, up) ==
    \/ /\ m = "gsheets"
       /\ ps \in BSeq(PieceUniverse, MaxPieces)
       /\ up = 0 - 2
    \/ /\ m = "upload"
       /\ ps = <<"g1">>                  \* gids_text stays DEFAULT_GIDS
       /\ up \in (0 - 2)..MaxSheetRows   \* no file, unreadable, or its rows

InitLoad ==
    /\ pc = "start" /\ stop = ""
    /\ IdleLoad
    /\ IdleTheme /\ IdlePick /\ IdleMap /\ IdleTime /\ IdleTab

\* lines 164-180: the run reads the sidebar's widgets
Sidebar ==
    /\ pc = "start"
    /\ pc' = "source"
    /\ ChooseSource(mode', pieces', uploaded')
    /\ UNCHANGED <<stop, gids, gi, frames, errors, raw, cache, outcome,
                   themeVars, pickVars, mapVars, timeVars, tabVars>>

\* the button: st.cache_data.clear()
ClearCache ==
    /\ pc = "source" /\ mode = "gsheets" /\ cache # NoCache
    /\ cache' = NoCache
    /\ UNCHANGED <<runVars, mode, pieces, uploaded, gids, gi, frames, errors,
                   raw, outcome, themeVars, pickVars, mapVars, timeVars,
                   tabVars>>

\* ttl=600: an entry expires between two runs
Expire ==
    /\ pc = "source"
    /\ \E g \in Gids :
          /\ cache[g] >= 0
          /\ cache' = [cache EXCEPT ![g] = 0 - 1]
    /\ UNCHANGED <<runVars, mode, pieces, uploaded, gids, gi, frames, errors,
                   raw, outcome, themeVars, pickVars, mapVars, timeVars,
                   tabVars>>

\* lines 217-222
StartGsheets ==
    /\ pc = "source" /\ mode = "gsheets"
    /\ gids' = ParseGids(pieces)
    /\ IF gids' = <<>>
       THEN pc' = "stopped" /\ stop' = "no_gids" /\ gi' = gi
       ELSE pc' = "fetch" /\ stop' = stop /\ gi' = 1
    /\ UNCHANGED <<mode, pieces, uploaded, frames, errors, raw, cache, outcome,
                   themeVars, pickVars, mapVars, timeVars, tabVars>>

\* One pass of the for loop with the inner try missing: the exception
\* reaches the outer except and safe_stop ends the run.
FetchAborting ==
    /\ pc = "fetch" /\ gi <= Len(gids)
    /\ \E r \in (0 - 1)..MaxSheetRows :
          /\ cache[gids[gi]] >= 0 => r = cache[gids[gi]]
          /\ outcome' = Append(outcome, r)
          /\ IF r >= 0
             THEN /\ frames' = Append(frames, TagFrame(gids[gi], r))
                  /\ cache' = [cache EXCEPT ![gids[gi]] = r]
                  /\ UNCHANGED <<errors, pc, stop>>
             ELSE /\ pc' = "stopped" /\ stop' = "load_failed"
                  /\ UNCHANGED <<frames, errors, cache>>
    /\ gi' = gi + 1
    /\ UNCHANGED <<mode, pieces, uploaded, gids, raw, themeVars, pickVars,
                   mapVars, timeVars, tabVars>>

\* One pass of the for loop, lines 223-229.  load_from_gsheets returns the
\* cached table of the gid when there is one; else the read raises (r = -1)
\* or returns a table of r rows, which is cached.
Fetch ==
    /\ pc = "fetch" /\ gi <= Len(gids)
    /\ \E r \in (0 - 1)..MaxSheetRows :
          /\ cache[gids[gi]] >= 0 => r = cache[gids[gi]]
          /\ outcome' = Append(outcome, r)
          /\ IF r >= 0
             THEN /\ frames' = Append(frames, TagFrame(gids[gi], r))
                  /\ cache' = [cache EXCEPT ![gids[gi]] = r]
                  /\ errors' = errors
             ELSE /\ errors' = Append(errors, gids[gi])
                  /\ UNCHANGED <<frames, cache>>
    /\ gi' = gi + 1
    /\ UNCHANGED <<runVars, mode, pieces, uploaded, gids, raw, themeVars,
                   pickVars, mapVars, timeVars, tabVars>>

\* lines 230-236 and 253-254, after the loop
Merge ==
    /\ pc = "fetch" /\ gi > Len(gids)
    /\ IF frames = <<>>
       THEN pc' = "stopped" /\ stop' = "no_sheet_read" /\ raw' = raw
       ELSE /\ raw' = Concat(frames)
            /\ IF Len(raw') = 0
               THEN pc' = "stopped" /\ stop' = "empty_table"
               ELSE pc' = "loaded" /\ stop' = stop
    /\ UNCHANGED <<mode, pieces, uploaded, gids, gi, frames, errors, cache,
                   outcome, themeVars, pickVars, mapVars, timeVars, tabVars>>

\* lines 237-242 and 253-254
LoadUpload ==
    /\ pc = "source" /\ mode = "upload"
    /\ IF uploaded = 0 - 2
       THEN pc' = "stopped" /\ stop' = "no_upload" /\ raw' = raw
       ELSE IF uploaded = 0 - 1
       THEN pc' = "stopped" /\ stop' = "upload_unreadable" /\ raw' = raw
       ELSE /\ raw' = TagFrame("upload", uploaded)
            /\ IF uploaded = 0
               THEN pc' = "stopped" /\ stop' = "empty_table"
               ELSE pc' = "loaded" /\ stop' = stop
    /\ UNCHANGED <<mode, pieces, uploaded, gids, gi, frames, errors, cache,
                   outcome, themeVars, pickVars, mapVars, timeVars, tabVars>>

\* a widget change runs the script again; the cache outlives the run
Rerun ==
    /\ pc \in {"loaded", "stopped"}
    /\ pc' = "start" /\ stop' = ""
    /\ mode' = "gsheets" /\ pieces' = <<>> /\ uploaded' = 0 - 2
    /\ gids' = <<>> /\ gi' = 0 /\ frames' = <<>> /\ errors' = <<>>
    /\ raw' = <<>> /\ outcome' = <<>>
    /\ UNCHANGED <<cache, themeVars, pickVars, mapVars, timeVars, tabVars>>

NextLoad ==
    \/ Sidebar
    \/ ClearCache
    \/ Expire
    \/ StartGsheets
    \/ Fetch
    \/ Merge
    \/ LoadUpload
    \/ Rerun

SpecLoad == InitLoad /\ [][NextLoad]_vars

-----------------------------------------------------------------------------
(* Claims on the load *)

\* a Google Sheets load of a non-empty list of gids that has ended
LoadEnded == pc \in {"loaded", "stopped"} /\ mode = "gsheets" /\ gids # <<>>

FetchedAt == {i \in 1..Len(outcome) : outcome[i] >= 0}
FailedAt  == {i \in 1..Len(outcome) : outcome[i] < 0}

\* the rows of the sources read at positions i.., each with its own gid
RECURSIVE RowsOfFetchedFrom(_)
RowsOfFetchedFrom(i) ==
    IF i > Len(outcome) THEN <<>>
    ELSE (IF outcome[i] >= 0
          THEN [k \in 1..outcome[i] |->
                  [source_gid |-> gids[i], sheet |-> gids[i], k |-> k]]
          ELSE <<>>)
         \o RowsOfFetchedFrom(i + 1)

\* the gids of the sources that failed at positions i.., in order
RECURSIVE GidsOfFailedFrom(_)
GidsOfFailedFrom(i) ==
    IF i > Len(outcome) THEN <<>>
    ELSE (IF outcome[i] < 0 THEN <<gids[i]>> ELSE <<>>)
         \o GidsOfFailedFrom(i + 1)

\* what holds of every ended load, whatever failed: every source was
\* tried, the errors are the failing sources, one entry each, and the
\* merged table, when one is built, has exactly the rows of the sources
\* read, each row tagged with its own gid
LoadBatchKept ==
    /\ Len(outcome) = Len(gids)
    /\ errors = GidsOfFailedFrom(1)
    /\ Len(errors) = Cardinality(FailedAt)
    /\ FetchedAt # {} =>
          /\ raw = RowsOfFetchedFrom(1)
          /\ \A k \in 1..Len(raw) : raw[k].source_gid = raw[k].sheet
    /\ FetchedAt = {} => (pc = "stopped" /\ stop = "no_sheet_read")

\* C1 as stated: a failing source never aborts the batch, and the load
\* proceeds if and only if at least one source was read.
C1_PartialFailureTolerated_AsStated ==
    LoadEnded =>
        /\ LoadBatchKept
        /\ (pc = "loaded") <=> (FetchedAt # {})

\* C1, amended: the load proceeds if and only if at least one source was
\* read and the sources read hold at least one row between them; when
\* every source read is empty the load stops on the empty table, as it
\* does when no source was read.
C1_PartialFailureTolerated ==
    LoadEnded =>
        /\ LoadBatchKept
        /\ (pc = "loaded") <=> (FetchedAt # {} /\ RowsOfFetchedFrom(1) # <<>>)
        /\ (FetchedAt # {} /\ RowsOfFetchedFrom(1) = <<>>) =>
              (pc = "stopped" /\ stop = "empty_table")

\* Two of five sources fail: three are merged, two errors are listed, and
\* the load proceeds.
C1_Witness ==
    /\ pc = "loaded" /\ mode = "gsheets" /\ Len(gids) = 5
    /\ Cardinality(FailedAt) = 2 /\ Len(errors) = 2 /\ Len(frames) = 3
    /\ Cardinality({gids[i] : i \in 1..5}) = 3
    /\ raw # <<>>

-----------------------------------------------------------------------------
(* The column mapping: lines 256-294 *)

MaxHeaders == 3     \* most columns of the raw table, _source_gid aside

H_DATE_FULL   == <<1044, 1072, 1090, 1072, 32, 1086, 1073, 1088, 1072, 1097, 1077, 1085, 1080, 1103>>  \* "Дата обращения"
H_DATE        == <<1044, 1072, 1090, 1072>>                         \* "Дата"
H_DATE_EN     == <<68, 97, 116, 101>>                               \* "Date"
H_REASON_FULL == <<1055, 1088, 1080, 1095, 1080, 1085, 1072, 32, 1086, 1073, 1088, 1072, 1097, 1077, 1085, 1080, 1103>>  \* "Причина обращения"
H_REASON      == <<1055, 1088, 1080, 1095, 1080, 1085, 1072>>       \* "Причина"
H_TOPIC       == <<1058, 1077, 1084, 1072, 32, 1086, 1073, 1088, 1072, 1097, 1077, 1085, 1080, 1103>>  \* "Тема обращения"
H_DATE_PADDED == <<32, 1044, 1072, 1090, 1072, 32, 32, 1086, 1073, 1088, 1072, 1097, 1077, 1085, 1080, 1103, 32>>  \* " Дата  обращения "
H_COMMENT     == <<1050, 1086, 1084, 1084, 1077, 1085, 1090, 1072, 1088, 1080, 1081>>  \* "Комментарий"
H_UPDATE      == <<85, 112, 100, 97, 116, 101>>                     \* "Update"
H_NUMBER      == <<1053, 1086, 1084, 1077, 1088>>                   \* "Номер"
H_SOURCE_GID  == <<95, 115, 111, 117, 114, 99, 101, 95, 103, 105, 100>>  \* "_source_gid"

\* line 263 and line 265
DATE_CANDIDATES   == <<H_DATE_FULL, H_DATE, H_DATE_EN>>
REASON_CANDIDATES == <<H_REASON_FULL, H_REASON, H_TOPIC>>

\* headers a sheet may carry
TableHeaders ==
    {H_DATE, H_DATE_PADDED, H_REASON, H_REASON_FULL, H_COMMENT, H_UPDATE,
     H_NUMBER}

\* normalize_columns: re.sub(r"\s+", " ", str(c).strip()) of every header
normalize_columns(hs) == [i \in 1..Len(hs) |-> Collapse(Strip(hs[i]))]

\* cols.index(x) if x in cols else 0, as a position from 1
DefaultIndex(cs, auto) ==
    IF auto.found /\ \E j \in 1..Len(cs) : cs[j] = auto.v
    THEN CHOOSE j \in 1..Len(cs) :
            cs[j] = auto.v /\ \A k \in 1..(j - 1) : cs[k] # auto.v
    ELSE 1

\* st.selectbox(options=cols, index=...): the user's choice, or the
\* option at the default index; None for no options
SelectBox(cs, auto, manual) ==
    IF cs = <<>> THEN NotFound
    ELSE IF manual # 0 THEN Found(cs[manual])
    ELSE Found(cs[DefaultIndex(cs, auto)])

\* not col or col not in df.columns
BadColumn(c, cs) ==
    \/ ~c.found
    \/ c.v = <<>>
    \/ ~\E j \in 1..Len(cs) : cs[j] = c.v

\* the raw table of a load that went on: its headers are distinct, and
\* the load has added _source_gid
InitMap ==
    /\ pc = "loaded" /\ stop = ""
    /\ headers \in {h \in BSeq(TableHeaders, MaxHeaders) :
                      /\ h # <<>>
                      /\ \A i, j \in 1..Len(h) : i # j => h[i] # h[j]}
    /\ cols = <<>>
    /\ auto_date = NotFound /\ auto_reason = NotFound
    /\ manual_date = 0 /\ manual_reason = 0
    /\ col_date = NotFound /\ col_reason = NotFound
    /\ IdleTheme /\ IdlePick /\ IdleLoad /\ IdleTime /\ IdleTab

\* lines 256-269
AutoMap ==
    /\ pc = "loaded"
    /\ cols' = normalize_columns(Append(headers, H_SOURCE_GID))
    /\ auto_date' = pick_col(cols', DATE_CANDIDATES)
    /\ auto_reason' = pick_col(cols', REASON_CANDIDATES)
    /\ pc' = "mapping"
    /\ UNCHANGED <<stop, headers, manual_date, manual_reason, col_date,
                   col_reason, themeVars, pickVars, loadVars, timeVars,
                   tabVars>>

\* lines 271-294: the two selectboxes, then the two checks
SelectColumns ==
    /\ pc = "mapping"
    /\ \E md \in 0..Len(cols), mr \in 0..Len(cols) :
          /\ manual_date' = md
          /\ manual_reason' = mr
          /\ col_date' = SelectBox(cols, auto_date, md)
          /\ col_reason' = SelectBox(cols, auto_reason, mr)
    /\ IF BadColumn(col_date', cols)
       THEN pc' = "stopped" /\ stop' = "no_date_column"
       ELSE IF BadColumn(col_reason', cols)
       THEN pc' = "stopped" /\ stop' = "no_reason_column"
       ELSE pc' = "mapped" /\ stop' = stop
    /\ UNCHANGED <<headers, cols, auto_date, auto_reason, themeVars,
                   pickVars, loadVars, timeVars, tabVars>>

NextMap == AutoMap \/ SelectColumns

SpecMap == InitMap /\ [][NextMap]_vars

\* C6: when pick_col finds no header for the date or for the reason and
\* the user chooses none, the run stops with the error of the missing
\* field and goes on to no later stage.
C6_MissingRequiredColumnFatal ==
    (pc \in {"mapped", "stopped"}) =>
        /\ (~auto_date.found /\ manual_date = 0) =>
              (pc = "stopped" /\ stop = "no_date_column")
        /\ (~auto_reason.found /\ manual_reason = 0) =>
              (pc = "stopped" /\ stop \in {"no_date_column", "no_reason_column"})

-----------------------------------------------------------------------------
(* parse_dt_smart and the week columns: lines 299-310 *)

MaxDtRows == 2      \* most rows of the table whose dates are parsed

\* the two fields before the year, and the year, of the generated texts
FirstFields  == {1, 2, 4, 13, 31}
SecondFields == {1, 3, 13}

\* the texts of a column without (tms = {NoTime}) or with a time column,
\* whose times are "nan" and "10:30"
DateTexts(tms) ==
    {DateText(a, b, 2024, tm) : a \in FirstFields, b \in SecondFields, tm \in tms}
    \cup {DateText(0, 0, 0, tm) : tm \in tms}

DateColumns ==
    UNION {[1..n -> DateTexts({NoTime})] \cup [1..n -> DateTexts({BadTime, 630})]
             : n \in 1..MaxDtRows}

InitTime ==
    /\ pc = "mapped" /\ stop = ""
    /\ parser \in {"strict", "lenient"}
    /\ s \in DateColumns
    /\ dt1 = <<>> /\ dt2 = <<>> /\ dt = <<>> /\ chosen = ""
    /\ week_start = <<>> /\ week_label = <<>>
    /\ IdleTheme /\ IdlePick /\ IdleLoad /\ IdleMap /\ IdleTab

\* line 299: df["_dt"] = parse_dt_smart(df, col_date, col_time)
ParseDt ==
    /\ pc = "mapped"
    /\ LET r == parse_dt_smart(s, parser)
       IN  /\ dt1' = r.dt1 /\ dt2' = r.dt2 /\ dt' = r.dt
           /\ chosen' = r.chosen
    /\ pc' = "parsed"
    /\ UNCHANGED <<stop, parser, s, week_start, week_label, themeVars,
                   pickVars, loadVars, mapVars, tabVars>>

\* lines 301-310
DeriveWeek ==
    /\ pc = "parsed"
    /\ IF \A i \in 1..Len(dt) : dt[i].nat
       THEN /\ pc' = "stopped" /\ stop' = "dates_unparsed"
            /\ UNCHANGED <<week_start, week_label>>
       ELSE /\ week_start' = [i \in 1..Len(dt) |-> WeekStart(dt[i])]
            /\ week_label' = [i \in 1..Len(dt) |-> WeekLabel(WeekStart(dt[i]))]
            /\ pc' = "derived" /\ stop' = stop
    /\ UNCHANGED <<parser, s, dt1, dt2, dt, chosen, themeVars, pickVars,
                   loadVars, mapVars, tabVars>>

NextTime == ParseDt \/ DeriveWeek

SpecTime == InitTime /\ [][NextTime]_vars

-----------------------------------------------------------------------------
(* Claims on the week columns and on parse_dt_smart *)

\* "2024-02-26"
LABEL_2024_02_26 == <<50, 48, 50, 52, 45, 48, 50, 45, 50, 54>>

\* C5: for every row with a timestamp, week_start is the Monday on or
\* before the timestamp's date and week_label is that date as
\* YYYY-MM-DD; "01.03.2024" with no time column is 2024-03-01 and gets
\* the week start 2024-02-26.
C5_WeekStartIsMonday ==
    (pc = "derived") =>
        \A i \in 1..Len(dt) : ~dt[i].nat =>
            /\ ~week_start[i].nat
            /\ Weekday(week_start[i].day) = 0
            /\ dt[i].day - week_start[i].day >= 0
            /\ dt[i].day - week_start[i].day <= 6
            /\ s[i] = DateText(1, 3, 2024, NoTime) =>
                  /\ dt[i].day = DaysFromCivil(2024, 3, 1)
                  /\ week_start[i].day = DaysFromCivil(2024, 2, 26)
                  /\ week_label[i] = Cell(LABEL_2024_02_26)

ParseEnded == pc \in {"parsed", "derived", "stopped"} /\ chosen # ""

\* the rows that parse day-first, and month-first
Ok1 == Cardinality({i \in 1..Len(s) : ~to_datetime(s[i], TRUE, parser).nat})
Ok2 == Cardinality({i \in 1..Len(s) : ~to_datetime(s[i], FALSE, parser).nat})

\* C10: the day-first result is returned whenever ok1 / n >= 0.5, and
\* month-first is then not tried; otherwise the month-first result is
\* returned exactly when ok2 > ok1.  Every row has its own result in the
\* order returned: a row that does not parse is NaT and the others are
\* parsed all the same.
C10_DateOrderDetection ==
    ParseEnded =>
        /\ 2 * Ok1 >= Len(s) => (chosen = "dayfirst" /\ dt2 = <<>>)
        /\ 2 * Ok1 < Len(s) => (chosen = "monthfirst" <=> Ok2 > Ok1)
        /\ chosen \in {"dayfirst", "monthfirst"}
        /\ Len(dt) = Len(s)
        /\ \A i \in 1..Len(s) :
              dt[i] = to_datetime(s[i], chosen = "dayfirst", parser)

\* Month-first wins with fewer than half the rows parsing day-first, and
\* the row that parses in neither order is the only NaT.
C10_Witness ==
    /\ pc = "parsed" /\ chosen = "monthfirst" /\ Len(s) = 2
    /\ Ok1 = 0 /\ Ok2 = 1
    /\ \E i, j \in 1..2 : dt[i].nat /\ ~dt[j].nat

-----------------------------------------------------------------------------
(* The plant column, the filters and the reason x plant table:            *)
(* lines 314-318, 366-379 and 397-409                                     *)

MaxRecs      == 2   \* most rows of df in the runs that build the table
MaxVendorLen == 3   \* longest generated vendor text
MaxWeek      == 2   \* the weeks the rows fall in are 1..MaxWeek

V_NSP_2000  == <<78, 83, 80, 45, 50, 48, 48, 48>>                \* "NSP-2000"
V_EPROM     == <<101, 112, 114, 111, 109>>                       \* "eprom"
V_EPROM_NSP == <<69, 80, 82, 79, 77, 32, 110, 115, 112>>         \* "EPROM nsp"
V_FOO       == <<102, 111, 111>>                                 \* "foo"
V_NAN_UPPER == <<78, 97, 78>>                                    \* "NaN"
R_BREAK     == <<1054, 1073, 1088, 1099, 1074>>                  \* "Обрыв"

\* 'n', 's', 'p', 'N', ' '
VendorAlphabet == {110, 115, 112, 78, 32}

\* vendor cells for the runs that classify one row
VendorCells ==
    {NaNCell}
    \cup {Cell(v) : v \in BSeq(VendorAlphabet, MaxVendorLen)}
    \cup {Cell(V_NSP_2000), Cell(V_EPROM), Cell(V_EPROM_NSP), Cell(V_FOO),
          Cell(V_NAN_UPPER), Cell(PLANT_EPROM)}

\* vendor and reason cells for the runs that build the table
FewVendorCells == {Cell(V_NSP_2000), Cell(V_EPROM), Cell(<<>>), Cell(V_FOO)}
ReasonCells    == {NaNCell, Cell(R_BREAK), Cell(TOTAL_NAME)}

\* a vendor map a user may type: {"Итого": ["nsp"]}
CUSTOM_VENDOR_MAP == << [plant |-> TOTAL_NAME, keys |-> << <<110, 115, 112>> >>] >>

\* try: json.loads / isinstance(dict) ... except: vendor_map = DEFAULT_VENDOR_MAP
VendorMaps == {DEFAULT_VENDOR_MAP, CUSTOM_VENDOR_MAP}

\* one row, every vendor cell
InitPlant ==
    /\ pc = "plant" /\ stop = ""
    /\ vendor_map \in VendorMaps
    /\ has_vendor \in BOOLEAN
    /\ df \in {<<Row(Cell(R_BREAK), v, 1, <<>>)>> : v \in VendorCells}
    /\ period = NoPeriod /\ plant_filter = {} /\ reason_filter = {}
    /\ fdf = <<>> /\ reason_plant = ReasonPlant(<<>>)
    /\ IdleTheme /\ IdlePick /\ IdleLoad /\ IdleMap /\ IdleTime

\* 1..MaxRecs rows
InitTab ==
    /\ pc = "plant" /\ stop = ""
    /\ vendor_map \in VendorMaps
    /\ has_vendor \in BOOLEAN
    /\ df \in UNION {[1..n -> {Row(r, v, w, <<>>) :
                                 r \in ReasonCells, v \in FewVendorCells,
                                 w \in 1..MaxWeek}] : n \in 1..MaxRecs}
    /\ period = NoPeriod /\ plant_filter = {} /\ reason_filter = {}
    /\ fdf = <<>> /\ reason_plant = ReasonPlant(<<>>)
    /\ IdleTheme /\ IdlePick /\ IdleLoad /\ IdleMap /\ IdleTime

\* lines 314-318
DerivePlant ==
    /\ pc = "plant"
    /\ df' = [i \in 1..Len(df) |->
                [df[i] EXCEPT !.plant = PlantOf(has_vendor, df[i].vendor, vendor_map)]]
    /\ pc' = "filter"
    /\ UNCHANGED <<stop, vendor_map, has_vendor, period, plant_filter,
                   reason_filter, fdf, reason_plant, themeVars, pickVars,
                   loadVars, mapVars, timeVars>>

\* the period radio with its week or dates
Periods(rows) ==
    LET ws == {rows[i].wk : i \in 1..Len(rows)}
    IN  {[mode |-> "latest", lo |-> 0, hi |-> 0]}
        \cup {[mode |-> "week", lo |-> w, hi |-> w] : w \in ws}
        \cup {[mode |-> "range", lo |-> a, hi |-> b] :
                 a \in 1..MaxWeek, b \in 1..MaxWeek}

\* lines 326-379: the filter widgets offer the values of df
Filter ==
    /\ pc = "filter"
    /\ period' \in Periods(df)
    /\ plant_filter' \in SUBSET {df[i].plant : i \in 1..Len(df)}
    /\ reason_filter' \in SUBSET {AsStr(df[i].reason) :
                                    i \in {k \in 1..Len(df) : ~df[k].reason.nan}}
    /\ fdf' = ApplyFilters(df, period', plant_filter', reason_filter')
    /\ pc' = "table"
    /\ UNCHANGED <<stop, vendor_map, has_vendor, df, reason_plant, themeVars,
                   pickVars, loadVars, mapVars, timeVars>>

\* lines 397-409
BuildTable ==
    /\ pc = "table"
    /\ reason_plant' = ReasonPlant(fdf)
    /\ pc' = "done"
    /\ UNCHANGED <<stop, vendor_map, has_vendor, df, period, plant_filter,
                   reason_filter, fdf, themeVars, pickVars, loadVars, mapVars,
                   timeVars>>

NextTab == DerivePlant \/ Filter \/ BuildTable

SpecPlant == InitPlant /\ [][NextTab]_vars

SpecTab == InitTab /\ [][NextTab]_vars

-----------------------------------------------------------------------------
(* Claims on the plant column and on the reason x plant table *)

\* the sum of f over a set of positions
RECURSIVE SumOver(_, _)
SumOver(f, S) ==
    IF S = {} THEN 0
    ELSE LET j == CHOOSE k \in S : TRUE IN f[j] + SumOver(f, S \ {j})

\* C7: the table that is shown and exported has one totals column and one
\* totals row labelled "Итого"; in every other row the cell of the totals
\* column is the sum of the row's other cells, and in every other column
\* the cell of the totals row is the sum of the column's other cells.
C7_CrossTabTotals ==
    (pc = "done") =>
        LET t  == reason_plant
            nr == Len(t.index)
            nc == Len(t.columns)
        IN  /\ \E jt \in 1..nc : \E it \in 1..nr :
                  /\ t.columns[jt] = TOTAL_NAME
                  /\ t.index[it] = TOTAL_NAME
                  /\ \A i \in (1..nr) \ {it} :
                        t.cnt[i][jt] = SumOver(t.cnt[i], (1..nc) \ {jt})
                  /\ \A j \in (1..nc) \ {jt} :
                        t.cnt[it][j] =
                            SumOver([i \in 1..nr |-> t.cnt[i][j]], (1..nr) \ {it})

\* the closed plant set in its order
FIXED_PLANTS == <<PLANT_EPROM, PLANT_NSP, LABEL_OTHER>>

\* C8: whatever rows pass the filters, the table has every label of the
\* closed plant set as a column, in the fixed order (with a zero count
\* where no row has the label).
C8_FixedPlantColumns ==
    (pc = "done" /\ vendor_map = DEFAULT_VENDOR_MAP) =>
        \E p \in [1..Len(FIXED_PLANTS) -> 1..Len(reason_plant.columns)] :
            /\ \A k \in 1..Len(FIXED_PLANTS) :
                  reason_plant.columns[p[k]] = FIXED_PLANTS[k]
            /\ \A k \in 1..(Len(FIXED_PLANTS) - 1) : p[k] < p[k + 1]

PlantDerived == pc \in {"filter", "table", "done"} /\ vendor_map = DEFAULT_VENDOR_MAP

\* str.lower() of a whole text
LowerAll(x) == [i \in 1..Len(x) |-> Lower(x[i])]

V_NSP_LOWER == <<110, 115, 112>>       \* "nsp"

\* the text holds one of the keys of the ЕПРОМ group, whatever the case
HoldsEpromKey(x) ==
    \E k \in 1..Len(DEFAULT_VENDOR_MAP[1].keys) :
        IsSubstr(DEFAULT_VENDOR_MAP[1].keys[k], _norm(x))

NoVendorText(c) ==
    \/ c.nan
    \/ Strip(c.v) = <<>>
    \/ LowerAll(Strip(c.v)) = NAN_TEXT

=============================================================================
